---- MODULE Spec2Model ----
(***************************************************************************)
(* Model of compressed_anomaly_detection.py: the MmvRecovery engine.       *)
(*                                                                         *)
(*  - Real numbers are exact extended rationals <<n, d>> (d = 0 encodes    *)
(*    the IEEE results of a division by zero: <<0,0>> is NaN, <<1,0>> and  *)
(*    <<-1,0>> are the infinities).  numpy divides float64 scalars by zero *)
(*    with a warning, never with an exception.                             *)
(*  - LA.norm is a square root; a score is a sum of rational multiples of  *)
(*    square roots of square-free integers and scores are compared         *)
(*    exactly.                                                             *)
(*  - np.random is a stream of draws indexed by a seed; a standard normal  *)
(*    draw is quantised to {-1, 0, 1}.                                     *)
(*  - Arrays keep Python's 0-based indices (functions over 0..n-1).        *)
(***************************************************************************)
EXTENDS Integers, Sequences, FiniteSets, TLC

(* ------------------------------ bounds --------------------------------- *)
MaxN == 2          \* signal rows N range over 1..MaxN
MaxT == 2          \* time steps T range over 0..MaxT
MaxM == 2          \* measurements M range over 0..MaxM
MaxCells == 4      \* a sweep has at most MaxCells (m, t) cells
MaxCutoff == 2     \* integer thresholds range over 0..MaxCutoff
MaxTrials == 6     \* a cell's while loop is followed for at most MaxTrials trials
NumSeeds == 12     \* seeds of the random stream

(* --------------- the configuration of the __main__ block --------------- *)
Mu0 == 0
Mu1 == 7
Sigma0 == 1
Sigma1 == 1

(* ------------------------------ ndarrays ------------------------------- *)
\* an array holds values: the function f with every entry evaluated once
Array(f) == f @@ <<>>

(* ------------------------- extended rationals -------------------------- *)
AbsInt(a) == IF a < 0 THEN -a ELSE a

SgnInt(a) == IF a < 0 THEN -1 ELSE IF a = 0 THEN 0 ELSE 1

RECURSIVE GCD(_, _)
GCD(a, b) == IF b = 0 THEN a ELSE GCD(b, a % b)

\* n/d in lowest terms with d >= 0; d = 0 gives NaN (n = 0) or a signed infinity
Q(n, d) ==
    IF d = 0 THEN <<SgnInt(n), 0>>
    ELSE LET g == GCD(AbsInt(n), AbsInt(d))
             s == IF d < 0 THEN -1 ELSE 1
         IN  <<(s * n) \div g, (s * d) \div g>>

QInt(a) == <<a, 1>>

NaN == <<0, 0>>

IsNaN(a) == a = NaN

IsFinite(a) == a[2] # 0

QAdd(a, b) ==
    IF a[2] = 0 /\ b[2] = 0
    THEN (IF a[1] = b[1] THEN a ELSE NaN)
    ELSE Q(a[1] * b[2] + b[1] * a[2], a[2] * b[2])

QNeg(a) == <<-a[1], a[2]>>

QSub(a, b) == QAdd(a, QNeg(b))

QMul(a, b) == Q(a[1] * b[1], a[2] * b[2])

QDiv(a, b) == Q(a[1] * b[2] * (IF b[1] < 0 THEN -1 ELSE 1), a[2] * AbsInt(b[1]))

QAbs(a) == <<AbsInt(a[1]), a[2]>>

\* IEEE comparison: false as soon as one side is NaN
QLess(a, b) ==
    /\ ~IsNaN(a) /\ ~IsNaN(b)
    /\ IF a[2] = 0 \/ b[2] = 0
       THEN (IF a[2] = 0 /\ b[2] = 0 THEN a[1] < b[1]
             ELSE IF a[2] = 0 THEN a[1] < 0 ELSE b[1] > 0)
       ELSE a[1] * b[2] < b[1] * a[2]

QLeq(a, b) == QLess(a, b) \/ (a = b /\ ~IsNaN(a))

\* np.sum of a 0-based vector of rationals
RECURSIVE QSumTo(_, _)
QSumTo(f, n) == IF n = 0 THEN QInt(0) ELSE QAdd(QSumTo(f, n - 1), f[n - 1])

\* np.dot of two 0-based vectors of length n
QDot(u, v, n) == QSumTo(Array([j \in 0..(n - 1) |-> QMul(u[j], v[j])]), n)

(* ------------------- sums of square roots (LA.norm) -------------------- *)
\* q = s * s * r with r square-free: sqrt(q) = s * sqrt(r); returns <<s, r>>
RECURSIVE SqrtPartsFrom(_, _, _)
SqrtPartsFrom(s, r, k) ==
    IF k * k > r THEN <<s, r>>
    ELSE IF r % (k * k) = 0 THEN SqrtPartsFrom(s * k, r \div (k * k), k)
    ELSE SqrtPartsFrom(s, r, k + 1)

SqrtParts(q) == SqrtPartsFrom(1, q, 2)

RECURSIVE SumSet(_, _)
SumSet(S, f) ==
    IF S = {} THEN 0
    ELSE LET x == CHOOSE y \in S : TRUE IN f[x] + SumSet(S \ {x}, f)

RECURSIVE GCDSet(_, _)
GCDSet(S, f) ==
    IF S = {} THEN 0
    ELSE LET x == CHOOSE y \in S : TRUE IN GCD(AbsInt(f[x]), GCDSet(S \ {x}, f))

\* The exact sign of SUM r \in DOMAIN C : C[r] * sqrt(r), C an integer-valued
\* function on square-free radicands: the sign of P - G for the positive part P
\* and the negated negative part G is the sign of P*P - G*G.
RECURSIVE SurdSign(_)
SurdSign(C) ==
    LET Pos == {r \in DOMAIN C : C[r] > 0}
        Neg == {r \in DOMAIN C : C[r] < 0}
    IN  IF Neg = {} THEN (IF Pos = {} THEN 0 ELSE 1)
        ELSE IF Pos = {} THEN -1
        ELSE LET g == GCDSet(Pos \cup Neg, C)
                 c == [r \in Pos \cup Neg |-> C[r] \div g]
                 Pairs == (Pos \X Pos) \cup (Neg \X Neg)
                 part == [p \in Pairs |-> SqrtParts(p[1] * p[2])]
                 Rads == {part[p][2] : p \in Pairs}
                 term == [p \in Pairs |->
                            (IF p[1] \in Pos THEN 1 ELSE -1) * c[p[1]] * c[p[2]] * part[p][1]]
             IN  SurdSign([rho \in Rads |->
                            SumSet({p \in Pairs : part[p][2] = rho}, term)])

(* ----------------------------- np.random ------------------------------- *)
Seeds == 0..(NumSeeds - 1)

\* the k-th standard normal draw of the stream seeded with seed, quantised
StdNormal(seed, k) == (((seed + 1) * (2 * k + 1) + ((seed * seed + k) \div 3)) % 3) - 1

\* np.random.normal(loc, scale) as the k-th draw of the stream
Normal(loc, scale, seed, k) == loc + scale * StdNormal(seed, k)

\* np.random.choice(N, K, replace=False): the possible index sets; a larger
\* sample than the population raises ValueError
Choice(N, K) == {S \in SUBSET (0..(N - 1)) : Cardinality(S) = K}

ChoiceRaises(N, K) == K > N

(* --------------------------- signal, operator -------------------------- *)
\* the position of k in the iteration "for k in support" (ascending here)
Rank(support, k) == Cardinality({j \in support : j < k})

\* get_signal: X (N x T) from the stream; draws 0..N*T-1 fill X, the next
\* K*T draws overwrite the rows of the support
get_signal(slf, N, T, support, seed) ==
    Array([n \in 0..(N - 1) |-> Array([ts \in 0..(T - 1) |->
        IF n \in support
        THEN Normal(slf.mu1, slf.sigma1, seed, N * T + Rank(support, n) * T + ts)
        ELSE Normal(slf.mu0, slf.sigma0, seed, n * T + ts)])])

\* the number of normal draws get_signal consumes
SignalDraws(N, T, K) == N * T + K * T

\* get_measurement_matrix drawing T matrices whatever t_var says
get_measurement_matrix_resampled(slf, N, T, M, seed, off) ==
    Array([ts \in 0..(T - 1) |-> Array([i \in 0..(M - 1) |-> Array([n \in 0..(N - 1) |->
        Normal(0, 1, seed, off + (ts * M + i) * N + n)])])])

\* get_measurement_matrix: T matrices M x N, drawn from position off on
get_measurement_matrix(slf, N, T, M, seed, off) ==
    IF slf.t_var
    THEN Array([ts \in 0..(T - 1) |-> Array([i \in 0..(M - 1) |-> Array([n \in 0..(N - 1) |->
            Normal(0, 1, seed, off + (ts * M + i) * N + n)])])])
    ELSE LET mat == Array([i \in 0..(M - 1) |-> Array([n \in 0..(N - 1) |->
                     Normal(0, 1, seed, off + i * N + n)])])
         IN  Array([ts \in 0..(T - 1) |-> mat])

\* the number of normal draws get_measurement_matrix consumes
MatrixDraws(slf, N, T, M) == IF slf.t_var THEN T * M * N ELSE M * N

\* phi[t, :, n] as a rational vector
Column(phi, ts, n, M) == Array([i \in 0..(M - 1) |-> QInt(phi[ts][i][n])])

RECURSIVE IntSumTo(_, _)
IntSumTo(f, n) == IF n = 0 THEN 0 ELSE IntSumTo(f, n - 1) + f[n - 1]

\* y = [np.dot(phi[t], X[:, t]) for t in range(T)]
Measure(phi, X, N, T, M) ==
    Array([ts \in 0..(T - 1) |-> Array([i \in 0..(M - 1) |->
        QInt(IntSumTo([n \in 0..(N - 1) |-> phi[ts][i][n] * X[n][ts]], N))])])

(* ------------------------- argsort, top-K slice ------------------------ *)
Perms(N) == {p \in [0..(N - 1) -> 0..(N - 1)] : \A i, j \in 0..(N - 1) : p[i] = p[j] => i = j}

\* xi.argsort(): the order among equal values is not specified
ArgSorts(xi, N) == {p \in Perms(N) : \A i \in 0..(N - 2) : QLeq(xi[p[i]], xi[p[i + 1]])}

\* the start of the Python slice [-K:] of a sequence of length N
SliceStart(N, K) == IF K = 0 THEN 0 ELSE IF K >= N THEN 0 ELSE N - K

\* the slice [:K] in place of [-K:]
TopK_first(p, N, K) == {p[i] : i \in 0..(K - 1)}

\* set(xi.argsort()[-K:][::-1])
TopK(p, N, K) == {p[i] : i \in SliceStart(N, K)..(N - 1)}

IsSuccess(support, support_predicted) == IF support = support_predicted THEN 1 ELSE 0

(* ----------------------------- OSGA, Lasso ----------------------------- *)
\* xi[n] = 1 / float(T) * sum over t of (y[t] . phi[t, :, n]) ** 2
OsgaXi(phi, y, N, T, M) ==
    Array([n \in 0..(N - 1) |->
        QMul(QDiv(QInt(1), QInt(T)),
             QSumTo(Array([ts \in 0..(T - 1) |->
                        LET d == QDot(y[ts], Column(phi, ts, n, M), M) IN QMul(d, d)]), T))])

\* what one call of recover_support_osga can return, over the random draws
\* and the orders argsort may give
recover_support_osga(slf, N, T, M, K) ==
    UNION {UNION {
        LET X   == get_signal(slf, N, T, support, seed)
            phi == get_measurement_matrix(slf, N, T, M, seed, SignalDraws(N, T, K))
            y   == Measure(phi, X, N, T, M)
            xi  == OsgaXi(phi, y, N, T, M)
        IN  {[X |-> X, phi |-> phi, xi |-> xi, zero_div |-> FALSE,
              support |-> support, support_predicted |-> TopK(p, N, K),
              is_success |-> IsSuccess(support, TopK(p, N, K))] : p \in ArgSorts(xi, N)}
        : seed \in Seeds} : support \in Choice(N, K)}

\* clf.coef_ of the fitted sklearn Lasso: the solver is outside the program,
\* its coefficients are any values of a small set
CoefValues == {-1, 0, 1}

LassoCoef(N) == [0..(N - 1) -> {QInt(c) : c \in CoefValues}]

recover_support_lasso(slf, N, T, M, K) ==
    UNION {UNION {UNION {
        LET X   == get_signal(slf, N, T, support, seed)
            phi == get_measurement_matrix(slf, N, T, M, seed, SignalDraws(N, T, K))
        IN  {[X |-> X, phi |-> phi, xi |-> xi, zero_div |-> FALSE,
              support |-> support, support_predicted |-> TopK(p, N, K),
              is_success |-> IsSuccess(support, TopK(p, N, K))] : p \in ArgSorts(xi, N)}
        : xi \in LassoCoef(N)} : seed \in Seeds} : support \in Choice(N, K)}

(* -------------------------------- SOMP --------------------------------- *)
\* the squared 2-norm of the integer column phi[t, :, n]
ColNormSq(phi, ts, n, M) == IntSumTo([i \in 0..(M - 1) |-> phi[ts][i][n] * phi[ts][i][n]], M)

\* np.abs(np.dot(residuals[t].T, phi[t, :, n])) / LA.norm(phi[t, :, n]) as
\* <<c, r>>, standing for c * sqrt(r); a zero norm gives c = NaN (or an infinity)
ScoreTerm(residuals, phi, ts, n, M) ==
    LET d  == QAbs(QDot(residuals[ts], Column(phi, ts, n, M), M))
        q  == ColNormSq(phi, ts, n, M)
        sr == SqrtParts(q)
    IN  IF q = 0 THEN <<QDiv(d, QInt(0)), 1>>
        ELSE <<QDiv(d, QInt(sr[1] * sr[2])), sr[2]>>

RECURSIVE QSumSet(_, _)
QSumSet(S, f) ==
    IF S = {} THEN QInt(0)
    ELSE LET x == CHOOSE y \in S : TRUE IN QAdd(f[x], QSumSet(S \ {x}, f))

\* np.sum([... for t in range(T)]): [ext |-> the sum when it is NaN or infinite
\* (else 0), coef |-> radicand -> rational coefficient when it is finite]
Score(residuals, phi, n, T, M) ==
    LET term == Array([ts \in 0..(T - 1) |-> ScoreTerm(residuals, phi, ts, n, M)])
        bad  == {ts \in 0..(T - 1) : ~IsFinite(term[ts][1])}
        rads == {term[ts][2] : ts \in 0..(T - 1)}
    IN  IF bad # {}
        THEN [ext |-> QSumSet(bad, [ts \in bad |-> term[ts][1]]), coef |-> <<>>]
        ELSE [ext |-> QInt(0),
              coef |-> Array([r \in rads |->
                          QSumSet({ts \in 0..(T - 1) : term[ts][2] = r},
                                  [ts \in 0..(T - 1) |-> term[ts][1]])])]

RECURSIVE LCMSet(_, _)
LCMSet(S, f) ==
    IF S = {} THEN 1
    ELSE LET x == CHOOSE y \in S : TRUE
             l == LCMSet(S \ {x}, f)
         IN  (l * f[x][2]) \div GCD(l, f[x][2])

\* a <= b for two scores that are not NaN
ScoreLeq(a, b) ==
    IF ~IsFinite(b.ext) THEN TRUE
    ELSE IF ~IsFinite(a.ext) THEN FALSE
    ELSE LET R == DOMAIN a.coef \cup DOMAIN b.coef
             D == [r \in R |->
                     QSub(IF r \in DOMAIN a.coef THEN a.coef[r] ELSE QInt(0),
                          IF r \in DOMAIN b.coef THEN b.coef[r] ELSE QInt(0))]
             L == LCMSet(R, D)
         IN  SurdSign([r \in R |-> D[r][1] * (L \div D[r][2])]) <= 0

\* np.argmax over scores[0..N-1]: the first NaN, else the first maximum
RECURSIVE ArgMaxFrom(_, _, _, _)
ArgMaxFrom(scores, N, i, best) ==
    IF i = N \/ IsNaN(scores[best].ext) THEN best
    ELSE IF IsNaN(scores[i].ext) \/ ~ScoreLeq(scores[i], scores[best])
         THEN ArgMaxFrom(scores, N, i + 1, i)
         ELSE ArgMaxFrom(scores, N, i + 1, best)

ArgMax(scores, N) == ArgMaxFrom(scores, N, 1, 0)

\* gamma[t, :, i] as a vector
GammaCol(gamma, ts, i, M) == Array([j \in 0..(M - 1) |-> gamma[ts][j][i]])

\* the orthogonalisation step: gamma[:, :, l] for the selected column nl.
\* np.sum of the list of projection vectors has no axis: it is one scalar.
Orthogonalize(phi, gamma, nl, l, T, M) ==
    Array([ts \in 0..(T - 1) |->
        IF l = 0 THEN Column(phi, ts, nl, M)
        ELSE LET c == Column(phi, ts, nl, M)
                 S == QSumTo(Array([i \in 0..(l - 1) |->
                        LET g == GammaCol(gamma, ts, i, M)
                            k == QDiv(QDot(c, g, M), QDot(g, g, M))
                        IN  QSumTo(Array([j \in 0..(M - 1) |-> QMul(k, g[j])]), M)]), l)
             IN  Array([j \in 0..(M - 1) |-> QSub(c[j], S)])])

\* residuals -= the projection of each residual on gamma[t, :, l]
UpdateResiduals(residuals, g, T, M) ==
    Array([ts \in 0..(T - 1) |->
        LET k == QDiv(QDot(residuals[ts], g[ts], M), QDot(g[ts], g[ts], M))
        IN  Array([j \in 0..(M - 1) |-> QSub(residuals[ts][j], QMul(k, g[ts][j]))])])

\* whether iteration l divides by a zero norm: a zero column in the scores, a
\* zero earlier basis vector in the orthogonalisation, a zero new basis vector
ZeroDivision(phi, gamma, g, l, N, T, M) ==
    \/ \E ts \in 0..(T - 1), n \in 0..(N - 1) : ColNormSq(phi, ts, n, M) = 0
    \/ \E ts \in 0..(T - 1), i \in 0..(l - 1) :
          LET gi == GammaCol(gamma, ts, i, M) IN QDot(gi, gi, M) = QInt(0)
    \/ \E ts \in 0..(T - 1) : QDot(g[ts], g[ts], M) = QInt(0)

\* for l in range(max_iter), from iteration l on; st holds residuals,
\* support_predicted, gamma and whether a division by a zero norm happened
RECURSIVE SompLoop(_, _, _, _, _, _, _)
SompLoop(phi, st, l, N, T, M, K) ==
    IF l >= K THEN st
    ELSE LET scores == Array([n \in 0..(N - 1) |-> Score(st.residuals, phi, n, T, M)])
             nl     == ArgMax(scores, N)
             g      == Orthogonalize(phi, st.gamma, nl, l, T, M)
             gamma  == Array([ts \in 0..(T - 1) |-> Array([j \in 0..(M - 1) |->
                          [st.gamma[ts][j] EXCEPT ![l] = g[ts][j]]])])
         IN  SompLoop(phi,
                      [residuals |-> UpdateResiduals(st.residuals, g, T, M),
                       support_predicted |-> st.support_predicted \cup {nl},
                       gamma |-> gamma,
                       zero_div |-> st.zero_div \/ ZeroDivision(phi, st.gamma, g, l, N, T, M)],
                      l + 1, N, T, M, K)

\* what one call of recover_support_somp can return, over the random draws
recover_support_somp(slf, N, T, M, K) ==
    UNION {
        {LET X   == get_signal(slf, N, T, support, seed)
             phi == get_measurement_matrix(slf, N, T, M, seed, SignalDraws(N, T, K))
             y   == Measure(phi, X, N, T, M)
             st  == SompLoop(phi,
                      [residuals |-> y, support_predicted |-> {},
                       gamma |-> Array([ts \in 0..(T - 1) |-> Array([j \in 0..(M - 1) |->
                                    Array([i \in 0..(K - 1) |-> QInt(0)])])]),
                       zero_div |-> FALSE],
                      0, N, T, M, K)
         IN  [X |-> X, phi |-> phi, xi |-> <<>>, zero_div |-> st.zero_div,
              support |-> support, support_predicted |-> st.support_predicted,
              is_success |-> IsSuccess(support, st.support_predicted)]
         : seed \in Seeds} : support \in Choice(N, K)}

(* ---------------------------- stopping rule ---------------------------- *)
\* high - low of proportion_confint(successes, trials, method='jeffreys'),
\* in ten-thousandths: row trials, column successes + 1 (the equal-tailed 95%
\* interval of Beta(successes + 1/2, trials - successes + 1/2))
JeffreysWidth ==
    << <<8529, 8529>>,
       <<6666, 8783, 6666>>,
       <<5354, 7845, 7845, 5354>>,
       <<4446, 6878, 7545, 6878, 4446>>,
       <<3793, 6061, 6962, 6962, 6061, 3793>>,
       <<3303, 5394, 6368, 6664, 6368, 5394, 3303>>,
       <<2924, 4849, 5829, 6266, 6266, 5829, 4849, 2924>>,
       <<2622, 4399, 5357, 5861, 6021, 5861, 5357, 4399, 2622>> >>

\* keep_going with "trials <= self.thresh" in the hard-cutoff branch
keep_going_leq(slf, successes, trials) ==
    IF slf.conf
    THEN QLess(slf.thresh, Q(JeffreysWidth[trials][successes + 1], 10000))
    ELSE QLeq(QInt(trials), slf.thresh)

\* keep_going: the interval is still wider than thresh, or trials < thresh
keep_going(slf, successes, trials) ==
    IF slf.conf
    THEN QLess(slf.thresh, Q(JeffreysWidth[trials][successes + 1], 10000))
    ELSE QLess(QInt(trials), slf.thresh)

(* ----------------------------- the engine ------------------------------ *)
VARIABLES
    self,            \* the fields __init__ sets
    pc,              \* where run_experiment stands
    m, t,            \* the loop variables of run_experiment
    success_count, trial_count, keep_going_,
    time_t0, now,    \* time.time() read at the start of a cell; the clock
    t_times, t_scores, t_runs,
    m_times, m_scores, m_runs,
    recorded,        \* the calls of record_experiment, in order
    call,            \* the last method call and its arguments
    ret              \* what that call returned

vars == <<self, pc, m, t, success_count, trial_count, keep_going_, time_t0, now,
          t_times, t_scores, t_runs, m_times, m_scores, m_runs, recorded, call, ret>>

\* np.arange(1, n + 1, 1)
Arange1(n) == [i \in 1..n |-> i]

\* MmvRecovery.__init__: stores its arguments, rejects nothing
MmvRecovery(N, T, M, K, mu0, mu1, sigma0, sigma1, thresh, conf, t_var, alg) ==
    [N |-> N, T |-> T, M |-> M, K |-> K,
     mu0 |-> mu0, mu1 |-> mu1, sigma0 |-> sigma0, sigma1 |-> sigma1,
     idxT |-> Arange1(T), idxM |-> Arange1(M),
     conf |-> conf, thresh |-> thresh, t_var |-> t_var, alg |-> alg]

Algs == {"osga", "lasso", "somp"}

\* integer cutoffs 0..MaxCutoff and the interval tolerance 4/5
Thresholds == {QInt(c) : c \in 0..MaxCutoff} \cup {Q(4, 5)}

NoCall == [method |-> "none"]

Fresh ==
    /\ pc = "start"
    /\ m = 0 /\ t = 0
    /\ success_count = 0 /\ trial_count = 0 /\ keep_going_ = FALSE
    /\ time_t0 = 0 /\ now = 0
    /\ t_times = <<>> /\ t_scores = <<>> /\ t_runs = <<>>
    /\ m_times = <<>> /\ m_scores = <<>> /\ m_runs = <<>>
    /\ recorded = <<>>
    /\ call = NoCall /\ ret = NoCall

\* any engine the constructor returns, with at most MaxCells cells to sweep
Init ==
    /\ \E N \in 1..MaxN, T \in 0..MaxT, M \in 0..MaxM, K \in 0..(MaxN + 1),
          thresh \in Thresholds, conf \in BOOLEAN, t_var \in BOOLEAN, alg \in Algs :
          /\ T * M <= MaxCells
          /\ self = MmvRecovery(N, T, M, K, Mu0, Mu1, Sigma0, Sigma1,
                                thresh, conf, t_var, alg)
    /\ Fresh

(* --------------------------- run_experiment ---------------------------- *)
\* the fields of self that a trial reads
SignalConfig(slf) ==
    [mu0 |-> slf.mu0, mu1 |-> slf.mu1, sigma0 |-> slf.sigma0,
     sigma1 |-> slf.sigma1, t_var |-> slf.t_var]

\* what run_experiment keeps of a trial: "_, _, is_success = ..."; zero_div
\* tells whether the trial divided by a zero norm
Outcome(r) == [is_success |-> r.is_success, zero_div |-> r.zero_div]

\* the outcomes of recover_support_somp for every argument tuple of a sweep,
\* evaluated once
SompOutcomes ==
    {<<[mu0 |-> Mu0, mu1 |-> Mu1, sigma0 |-> Sigma0, sigma1 |-> Sigma1, t_var |-> tv],
       N, T, M, K,
       {Outcome(r) : r \in recover_support_somp(
            [mu0 |-> Mu0, mu1 |-> Mu1, sigma0 |-> Sigma0, sigma1 |-> Sigma1, t_var |-> tv],
            N, T, M, K)}>>
     : tv \in BOOLEAN, N \in 1..MaxN, T \in 1..MaxT, M \in 1..MaxM, K \in 0..MaxN}

\* the outcomes of self.recover_support_somp(N, T, M, K)
TrialOutcomes(slf, N, T, M, K) ==
    (CHOOSE e \in SompOutcomes :
        e[1] = SignalConfig(slf) /\ e[2] = N /\ e[3] = T /\ e[4] = M /\ e[5] = K)[6]

\* def run_experiment(self): the three result lists are created
run_experiment ==
    /\ pc = "start"
    /\ m_times' = <<>> /\ m_scores' = <<>> /\ m_runs' = <<>>
    /\ pc' = "for_m"
    /\ UNCHANGED <<self, m, t, success_count, trial_count, keep_going_, time_t0, now,
                   t_times, t_scores, t_runs, recorded, call, ret>>

\* for m in self.idxM: the next m; the per-row lists are created
for_m ==
    /\ pc = "for_m"
    /\ Len(m_runs) < Len(self.idxM)
    /\ m' = self.idxM[Len(m_runs) + 1]
    /\ t_times' = <<>> /\ t_scores' = <<>> /\ t_runs' = <<>>
    /\ pc' = "for_t"
    /\ UNCHANGED <<self, t, success_count, trial_count, keep_going_, time_t0, now,
                   m_times, m_scores, m_runs, recorded, call, ret>>

\* the loop over m is exhausted: self.record_experiment(m_times, m_scores, m_runs)
record_experiment ==
    /\ pc = "for_m"
    /\ Len(m_runs) >= Len(self.idxM)
    /\ recorded' = Append(recorded,
                          [m_times |-> m_times, m_scores |-> m_scores, m_runs |-> m_runs])
    /\ pc' = "done"
    /\ UNCHANGED <<self, m, t, success_count, trial_count, keep_going_, time_t0, now,
                   t_times, t_scores, t_runs, m_times, m_scores, m_runs, call, ret>>

\* for t in self.idxT: the next t; the counters of the cell are reset
for_t ==
    /\ pc = "for_t"
    /\ Len(t_runs) < Len(self.idxT)
    /\ t' = self.idxT[Len(t_runs) + 1]
    /\ time_t0' = now
    /\ success_count' = 0 /\ trial_count' = 0 /\ keep_going_' = TRUE
    /\ pc' = "while"
    /\ UNCHANGED <<self, m, now, t_times, t_scores, t_runs,
                   m_times, m_scores, m_runs, recorded, call, ret>>

\* the loop over t is exhausted: the row is appended to the three matrices
end_row ==
    /\ pc = "for_t"
    /\ Len(t_runs) >= Len(self.idxT)
    /\ m_runs' = Append(m_runs, t_runs)
    /\ m_scores' = Append(m_scores, t_scores)
    /\ m_times' = Append(m_times, t_times)
    /\ pc' = "for_m"
    /\ UNCHANGED <<self, m, t, success_count, trial_count, keep_going_, time_t0, now,
                   t_times, t_scores, t_runs, recorded, call, ret>>

\* the trial called as recover_support_somp(self.N, m, t, self.K)
trial_swapped ==
    /\ pc = "while"
    /\ keep_going_
    /\ trial_count < MaxTrials
    /\ ~ChoiceRaises(self.N, self.K)
    /\ \E o \in TrialOutcomes(self, self.N, m, t, self.K) :
          /\ call' = [method |-> "recover_support_somp",
                      N |-> self.N, T |-> m, M |-> t, K |-> self.K]
          /\ ret' = o
          /\ trial_count' = trial_count + 1
          /\ success_count' = success_count + o.is_success
          /\ keep_going_' = keep_going(self, success_count + o.is_success, trial_count + 1)
    /\ now' = now + 1
    /\ UNCHANGED <<self, pc, m, t, time_t0, t_times, t_scores, t_runs,
                   m_times, m_scores, m_runs, recorded>>

\* the trial with keep_going consulted before success_count is updated
trial_stale ==
    /\ pc = "while"
    /\ keep_going_
    /\ trial_count < MaxTrials
    /\ ~ChoiceRaises(self.N, self.K)
    /\ \E o \in TrialOutcomes(self, self.N, t, m, self.K) :
          /\ call' = [method |-> "recover_support_somp",
                      N |-> self.N, T |-> t, M |-> m, K |-> self.K]
          /\ ret' = o
          /\ trial_count' = trial_count + 1
          /\ success_count' = success_count + o.is_success
          /\ keep_going_' = keep_going(self, success_count, trial_count + 1)
    /\ now' = now + 1
    /\ UNCHANGED <<self, pc, m, t, time_t0, t_times, t_scores, t_runs,
                   m_times, m_scores, m_runs, recorded>>

\* one pass of "while keep_going": a trial that returns; the clock advances by
\* one tick per trial
trial ==
    /\ pc = "while"
    /\ keep_going_
    /\ trial_count < MaxTrials
    /\ ~ChoiceRaises(self.N, self.K)
    /\ \E o \in TrialOutcomes(self, self.N, t, m, self.K) :
          /\ call' = [method |-> "recover_support_somp",
                      N |-> self.N, T |-> t, M |-> m, K |-> self.K]
          /\ ret' = o
          /\ trial_count' = trial_count + 1
          /\ success_count' = success_count + o.is_success
          /\ keep_going_' = keep_going(self, success_count + o.is_success, trial_count + 1)
    /\ now' = now + 1
    /\ UNCHANGED <<self, pc, m, t, time_t0, t_times, t_scores, t_runs,
                   m_times, m_scores, m_runs, recorded>>

\* one pass of "while keep_going": np.random.choice raises ValueError in
\* get_signal; nothing catches it
trial_raises ==
    /\ pc = "while"
    /\ keep_going_
    /\ ChoiceRaises(self.N, self.K)
    /\ call' = [method |-> "recover_support_somp",
                N |-> self.N, T |-> t, M |-> m, K |-> self.K]
    /\ ret' = [raised |-> "ValueError"]
    /\ pc' = "raised"
    /\ UNCHANGED <<self, m, t, success_count, trial_count, keep_going_, time_t0, now,
                   t_times, t_scores, t_runs, m_times, m_scores, m_runs, recorded>>

\* the while loop is left: the statistics of the cell are appended
end_cell ==
    /\ pc = "while"
    /\ ~keep_going_
    /\ IF trial_count = 0
       THEN /\ pc' = "raised"
            /\ ret' = [raised |-> "ZeroDivisionError"]
            /\ UNCHANGED <<t_runs, t_scores, t_times>>
       ELSE /\ t_runs' = Append(t_runs, trial_count)
            /\ t_scores' = Append(t_scores, Q(success_count, trial_count))
            /\ t_times' = Append(t_times, now - time_t0)
            /\ pc' = "for_t"
            /\ UNCHANGED ret
    /\ UNCHANGED <<self, m, t, success_count, trial_count, keep_going_, time_t0, now,
                   m_times, m_scores, m_runs, recorded, call>>

Next ==
    \/ run_experiment
    \/ for_m
    \/ record_experiment
    \/ for_t
    \/ end_row
    \/ trial
    \/ trial_raises
    \/ end_cell

Spec == Init /\ [][Next]_vars

\* the engines in hard-cutoff mode (conf=False)
InitHardCutoff == Init /\ ~self.conf

\* their sweeps, with an interpreter that keeps running
SpecHardCutoff == InitHardCutoff /\ [][Next]_vars /\ WF_vars(Next)

(* ------------------------- one direct method call ---------------------- *)
\* the engine of the __main__ block, with either setting of t_var
InitCall ==
    /\ \E t_var \in BOOLEAN :
          self = MmvRecovery(MaxN, MaxT, MaxM, 1, Mu0, Mu1, Sigma0, Sigma1,
                             Q(4, 5), TRUE, t_var, "somp")
    /\ Fresh

Returned(method, N, T, M, K, result) ==
    /\ pc' = "returned"
    /\ call' = [method |-> method, N |-> N, T |-> T, M |-> M, K |-> K]
    /\ ret' = result
    /\ UNCHANGED <<self, m, t, success_count, trial_count, keep_going_, time_t0, now,
                   t_times, t_scores, t_runs, m_times, m_scores, m_runs, recorded>>

\* self.get_measurement_matrix(N, T, M)
call_get_measurement_matrix ==
    /\ pc = "start"
    /\ \E N \in 1..MaxN, T \in 1..MaxT, M \in 1..MaxM, seed \in Seeds :
           Returned("get_measurement_matrix", N, T, M, 0,
                    [phi |-> get_measurement_matrix(self, N, T, M, seed, 0)])

\* self.recover_support_osga(N, T, M, K)
call_recover_support_osga ==
    /\ pc = "start"
    /\ \E N \in 1..MaxN, T \in 1..MaxT, M \in 1..MaxM, K \in 0..(MaxN + 1) :
           IF ChoiceRaises(N, K)
           THEN Returned("recover_support_osga", N, T, M, K, [raised |-> "ValueError"])
           ELSE \E r \in recover_support_osga(self, N, T, M, K) :
                   Returned("recover_support_osga", N, T, M, K, r)

\* self.recover_support_lasso(N, T, M, K)
call_recover_support_lasso ==
    /\ pc = "start"
    /\ \E N \in 1..MaxN, T \in 1..MaxT, M \in 1..MaxM, K \in 0..(MaxN + 1) :
           IF ChoiceRaises(N, K)
           THEN Returned("recover_support_lasso", N, T, M, K, [raised |-> "ValueError"])
           ELSE \E r \in recover_support_lasso(self, N, T, M, K) :
                   Returned("recover_support_lasso", N, T, M, K, r)

\* self.recover_support_somp(N, T, M, K)
call_recover_support_somp ==
    /\ pc = "start"
    /\ \E N \in 1..MaxN, T \in 1..MaxT, M \in 1..MaxM, K \in 0..(MaxN + 1) :
           IF ChoiceRaises(N, K)
           THEN Returned("recover_support_somp", N, T, M, K, [raised |-> "ValueError"])
           ELSE \E r \in recover_support_somp(self, N, T, M, K) :
                   Returned("recover_support_somp", N, T, M, K, r)

NextCall ==
    \/ call_get_measurement_matrix
    \/ call_recover_support_osga
    \/ call_recover_support_lasso
    \/ call_recover_support_somp

SpecCall == InitCall /\ [][NextCall]_vars

(* ------------------------ properties of the sweep ---------------------- *)
StrategyOf(alg) ==
    CASE alg = "osga"  -> "recover_support_osga"
      [] alg = "lasso" -> "recover_support_lasso"
      [] alg = "somp"  -> "recover_support_somp"

\* C2: every trial of run_experiment calls the recovery method of the
\* strategy that alg named at construction, and no other.
C2_TrialUsesConfiguredStrategy ==
    call.method # "none" => call.method = StrategyOf(self.alg)

\* the configurations the constructor is documented to accept
ValidConfiguration(slf) ==
    /\ slf.K <= slf.N
    /\ slf.N > 0 /\ slf.T > 0 /\ slf.M > 0
    /\ slf.conf => QLess(QInt(0), slf.thresh) /\ QLess(slf.thresh, QInt(1))
    /\ ~slf.conf => slf.thresh[2] = 1 /\ slf.thresh[1] >= 1

\* C4: an engine whose configuration is invalid (K > N, a non-positive N, T
\* or M, a tolerance outside (0,1) in interval mode, a cutoff that is not a
\* positive integer in fixed-count mode) never gets as far as run_experiment.
C4_InvalidConfigurationNeverRuns ==
    pc # "start" => ValidConfiguration(self)

\* the last trial divided by a zero norm
DividedByZeroNorm == "zero_div" \in DOMAIN ret /\ ret.zero_div

\* C5: a SOMP trial that divides by a zero norm does not return a value to the
\* sweep: the run is aborted by an error and the trial is never counted.
C5_ZeroNormAbortsTheRun ==
    (call.method = "recover_support_somp" /\ DividedByZeroNorm) => pc = "raised"

SameShape(rows, nrows, ncols) ==
    /\ Len(rows) = nrows
    /\ \A i \in 1..Len(rows) : Len(rows[i]) = ncols

\* where the loops stand, what a trial is called with, the shape of the outputs
C7_Position ==
    /\ pc \in {"for_t", "while"} => m = Len(m_runs) + 1 /\ m \in 1..self.M
    /\ pc = "while" => t = Len(t_runs) + 1 /\ t \in 1..self.T
    /\ (pc = "while" /\ trial_count >= 1) =>
          call = [method |-> "recover_support_somp",
                  N |-> self.N, T |-> t, M |-> m, K |-> self.K]
    /\ Len(t_runs) = Len(t_times) /\ Len(t_runs) = Len(t_scores)
    /\ SameShape(m_runs, Len(m_runs), self.T)
    /\ SameShape(m_times, Len(m_runs), self.T)
    /\ SameShape(m_scores, Len(m_runs), self.T)
    /\ Len(recorded) = (IF pc = "done" THEN 1 ELSE 0)
    /\ pc = "done" =>
          /\ recorded[1] = [m_times |-> m_times, m_scores |-> m_scores, m_runs |-> m_runs]
          /\ SameShape(recorded[1].m_runs, self.M, self.T)
          /\ SameShape(recorded[1].m_times, self.M, self.T)
          /\ SameShape(recorded[1].m_scores, self.M, self.T)

\* the entry a finished cell writes, the row a finished m writes
C7_Step ==
    /\ (pc = "while" /\ pc' = "for_t") =>
          /\ t_runs' = Append(t_runs, trial_count)
          /\ t_scores' = Append(t_scores, Q(success_count, trial_count))
          /\ t_times' = Append(t_times, now - time_t0)
          /\ Len(t_runs') = t
    /\ (pc = "for_t" /\ pc' = "for_m") =>
          /\ m_runs' = Append(m_runs, t_runs)
          /\ m_scores' = Append(m_scores, t_scores)
          /\ m_times' = Append(m_times, t_times)
          /\ Len(m_runs') = m /\ Len(t_runs) = self.T
    /\ (pc = "for_t" /\ pc' = "while") => t' = Len(t_runs) + 1
    /\ pc \notin {"while", "for_t", "start"} =>
          /\ m_runs' = m_runs /\ m_scores' = m_scores /\ m_times' = m_times
    /\ recorded' # recorded => pc = "for_m" /\ Len(m_runs) = self.M

\* C7: the sweep goes through the cells with m outermost and t innermost, both
\* ascending from 1; every trial of cell (m, t) is called with t time steps and
\* m measurements; the statistics of cell (m, t) become entry [m-1][t-1] of the
\* three outputs, which are Mmax x Tmax on completion and are passed to
\* record_experiment once, after the last cell.
C7_SweepOrderAndOutputs == [](C7_Position) /\ [][C7_Step]_vars

C7_Witness ==
    /\ pc = "done" /\ Len(recorded) = 1
    /\ self.M = 2 /\ self.T = 2
    /\ SameShape(recorded[1].m_runs, 2, 2)

RECURSIVE SumSeq(_)
SumSeq(s) == IF s = <<>> THEN 0 ELSE Head(s) + SumSeq(Tail(s))

\* the number of trials behind a matrix of per-cell trial counts
TotalRuns(rows) == SumSeq([i \in 1..Len(rows) |-> SumSeq(rows[i])])

\* hard-cutoff mode with a positive integer cutoff
FixedCount == ~self.conf /\ self.thresh[2] = 1 /\ self.thresh[1] >= 1

Cutoff == self.thresh[1]

C8_Counts ==
    FixedCount =>
        /\ \A s \in 0..MaxTrials, n \in 0..MaxTrials :
              keep_going(self, s, n) = (n < Cutoff)
        /\ pc = "while" => trial_count <= Cutoff
        /\ \A i \in 1..Len(t_runs) : t_runs[i] = Cutoff
        /\ \A i \in 1..Len(m_runs) : \A j \in 1..Len(m_runs[i]) : m_runs[i][j] = Cutoff
        /\ pc = "done" => TotalRuns(recorded[1].m_runs) = self.M * self.T * Cutoff

Ended == pc \in {"done", "raised"}

\* C8: in hard-cutoff mode with a positive integer cutoff c, keep_going(s, n)
\* is n < c whatever s is; every cell runs c trials whatever the trials
\* return; run_experiment ends, and returns after Mmax * Tmax * c trials.
C8_FixedCountStopsAtCutoff == [](C8_Counts) /\ (FixedCount ~> Ended)

C8_Witness ==
    /\ FixedCount /\ Cutoff = 2
    /\ pc = "done" /\ self.M = 2 /\ self.T = 2
    /\ TotalRuns(recorded[1].m_runs) = 8
    /\ \E i, j \in 1..2 : recorded[1].m_scores[i][j] = Q(1, 2)

InUnitInterval(q) == QLeq(QInt(0), q) /\ QLeq(q, QInt(1))

C10_Counters ==
    /\ pc = "while" => 0 <= success_count /\ success_count <= trial_count
    /\ (pc = "while" /\ trial_count = 0) => keep_going_ /\ success_count = 0
    /\ (pc = "while" /\ trial_count >= 1) =>
          keep_going_ = keep_going(self, success_count, trial_count)
    /\ \A i \in 1..Len(t_runs) : t_runs[i] >= 1 /\ InUnitInterval(t_scores[i])
    /\ \A i \in 1..Len(m_runs) : \A j \in 1..Len(m_runs[i]) :
          m_runs[i][j] >= 1 /\ InUnitInterval(m_scores[i][j])
    /\ ret # [raised |-> "ZeroDivisionError"]

C10_Step ==
    /\ (pc = "for_t" /\ pc' = "while") =>
          success_count' = 0 /\ trial_count' = 0 /\ call' = call
    /\ (pc = "while" /\ pc' = "while") =>
          /\ trial_count' = trial_count + 1
          /\ success_count' \in {success_count, success_count + 1}
          /\ trial_count = 0 \/ keep_going(self, success_count, trial_count)
    /\ (pc = "while" /\ pc' = "for_t") =>
          /\ trial_count >= 1
          /\ ~keep_going(self, success_count, trial_count)
          /\ t_runs' = Append(t_runs, trial_count)
          /\ t_scores' = Append(t_scores, Q(success_count, trial_count))

\* C10: the counters of a cell start at 0; its first trial runs before the
\* stopping rule is asked; each trial adds 1 to trial_count and 0 or 1 to
\* success_count; after each trial the flag is keep_going of the cumulative
\* counts; the cell is recorded at the first n >= 1 where keep_going is false,
\* so the recorded rate divides by n >= 1 and lies in [0, 1].
C10_PerCellCounters == [](C10_Counters) /\ [][C10_Step]_vars

C10_Witness ==
    /\ self.conf /\ self.thresh = Q(4, 5)
    /\ pc = "for_t" /\ Len(t_runs) >= 1
    /\ t_runs[1] = 3 /\ t_scores[1] = Q(1, 3)

(* --------------------- properties of a direct call --------------------- *)
\* a recovery method was called and returned its triple
RecoveryReturned ==
    /\ call.method \in {"recover_support_osga", "recover_support_lasso",
                        "recover_support_somp"}
    /\ "support_predicted" \in DOMAIN ret

\* C1: for N, T, M >= 1 and 0 <= K <= N, each of the three recovery methods
\* returns a predicted support of exactly K distinct indices of 0..N-1.
C1_PredictedSupportHasKIndices ==
    (RecoveryReturned /\ call.K <= call.N) =>
        /\ Cardinality(ret.support_predicted) = call.K
        /\ ret.support_predicted \subseteq 0..(call.N - 1)

\* C3: with K = 0 every recovery method returns an empty true support, an
\* empty predicted support, and success indicator 1.
C3_EmptySupportTriviallySucceeds ==
    (RecoveryReturned /\ call.K = 0) =>
        /\ ret.support = {}
        /\ ret.support_predicted = {}
        /\ ret.is_success = 1

MatrixReturned == call.method = "get_measurement_matrix" /\ "phi" \in DOMAIN ret

\* C6: get_measurement_matrix(N, T, M) returns T matrices, each M x N; with
\* t_var false the T matrices are equal entry by entry.
C6_MeasurementMatrixShapeAndReplication ==
    MatrixReturned =>
        /\ DOMAIN ret.phi = 0..(call.T - 1)
        /\ \A ts \in 0..(call.T - 1) :
              /\ DOMAIN ret.phi[ts] = 0..(call.M - 1)
              /\ \A i \in 0..(call.M - 1) :
                    /\ DOMAIN ret.phi[ts][i] = 0..(call.N - 1)
                    /\ \A n \in 0..(call.N - 1) : ret.phi[ts][i][n] \in Int
        /\ ~self.t_var =>
              \A ts \in 0..(call.T - 1), i \in 0..(call.M - 1), n \in 0..(call.N - 1) :
                  ret.phi[ts][i][n] = ret.phi[0][i][n]

C6_Witness ==
    /\ MatrixReturned /\ ~self.t_var
    /\ call.T = 2 /\ call.M = 2 /\ call.N = 2
    /\ ret.phi[0] = ret.phi[1]
    /\ ret.phi[0][0] # ret.phi[0][1]

RECURSIVE SumOver(_, _)
SumOver(f, S) ==
    IF S = {} THEN 0
    ELSE LET x == CHOOSE x \in S : TRUE IN f[x] + SumOver(f, S \ {x})

\* T * xi[n] = the sum over t of (y_t . phi_t[:, n])^2 with y_t = phi_t X[:, t],
\* from the returned X and phi
Energy(X, phi, N, T, M) ==
    [n \in 0..(N - 1) |->
        SumOver([ts \in 0..(T - 1) |->
            LET y == [i \in 0..(M - 1) |->
                        SumOver([j \in 0..(N - 1) |-> phi[ts][i][j] * X[j][ts]], 0..(N - 1))]
                d == SumOver([i \in 0..(M - 1) |-> y[i] * phi[ts][i][n]], 0..(M - 1))
            IN  d * d], 0..(T - 1))]

\* C9: for 1 <= K <= N recover_support_osga returns K indices whose xi values
\* are at least those of every other index, xi[n] being the mean over t of
\* (y_t . phi_t[:, n])^2, and is_success is 1 exactly when that set is the
\* true support.
C9_OsgaTakesKLargestEnergies ==
    (RecoveryReturned /\ call.method = "recover_support_osga" /\ call.K >= 1) =>
        LET E == Energy(ret.X, ret.phi, call.N, call.T, call.M)
            S == ret.support_predicted
        IN  /\ Cardinality(S) = call.K /\ S \subseteq 0..(call.N - 1)
            /\ \A n \in 0..(call.N - 1) : ret.xi[n] = Q(E[n], call.T)
            /\ \A i \in S, j \in (0..(call.N - 1)) \ S : E[i] >= E[j]
            /\ (ret.is_success = 1) <=> (S = ret.support)
            /\ ret.is_success \in {0, 1}

C9_Witness ==
    /\ RecoveryReturned /\ call.method = "recover_support_osga"
    /\ call.K = 1 /\ call.N = 2 /\ call.T = 2 /\ call.M = 2
    /\ ret.is_success = 1
    /\ \E i, j \in 0..1 : ret.xi[i] # ret.xi[j]

====
